---- MODULE Spec2Model ----
(***************************************************************************)
(* A model of DynamicBuffer (src/src/dynamicBuffer.ts): a growable byte    *)
(* container that tracks its allocated size and the number of used bytes.  *)
(*                                                                         *)
(* A string is a sequence of Unicode code points; the codec is UTF-8 (the  *)
(* default encoding of the class).  A byte is an integer in 0..255.  The   *)
(* field `buffer` is optional in the source (`private buffer?: Buffer`):   *)
(* it is a record with a `present` flag, the bytes of the block and `id`,   *)
(* the identity of the block: each allocation makes a new one.             *)
(***************************************************************************)
EXTENDS Integers, Sequences, FiniteSets, TLC

(***************************************************************************)
(* Bounds of the model.                                                    *)
(***************************************************************************)
\* buffer.constants.MAX_LENGTH, scaled down so that overflow is reachable.
MAX_LENGTH == 20
\* Number of public calls made on a region after its construction.
MaxOps == 2
\* Number of append calls in the append-only specification.
MaxAppends == 3
\* the greatest number of next() calls that return a value from one iterator
MaxIndex == 4

(***************************************************************************)
(* Program constants.                                                      *)
(***************************************************************************)
DefaultInitialSize == 16
DefaultResizeFactor == [kind |-> "num", num |-> 3, den |-> 4]

(***************************************************************************)
(* Optional arguments: an argument that was not passed is `undefined`.     *)
(***************************************************************************)
Undefined == [def |-> FALSE, val |-> 0]
Arg(v) == [def |-> TRUE, val |-> v]

\* A number given as the resize factor: a rational num/den, or NaN.
Num(n, d) == [kind |-> "num", num |-> n, den |-> d]
NaN == [kind |-> "NaN", num |-> 0, den |-> 1]
NoFactor == [kind |-> "undefined", num |-> 0, den |-> 1]

\* The JavaScript values that `||` treats as false: undefined, NaN and 0.
Falsy(f) == f.kind = "undefined" \/ f.kind = "NaN" \/ f.num = 0

(***************************************************************************)
(* Strings and the UTF-8 codec.                                            *)
(***************************************************************************)
\* UTF-8 bytes of one code point.
UTF8Char(cp) ==
  IF cp < 128 THEN <<cp>>
  ELSE IF cp < 2048 THEN <<192 + (cp \div 64), 128 + (cp % 64)>>
  ELSE IF cp < 65536
    THEN <<224 + (cp \div 4096), 128 + ((cp \div 64) % 64), 128 + (cp % 64)>>
  ELSE <<240 + (cp \div 262144), 128 + ((cp \div 4096) % 64),
         128 + ((cp \div 64) % 64), 128 + (cp % 64)>>

\* UTF-8 bytes of a whole string.
RECURSIVE Encode(_)
Encode(text) ==
  IF text = <<>> THEN <<>> ELSE UTF8Char(Head(text)) \o Encode(Tail(text))

\* String.prototype.length: the number of UTF-16 code units.
RECURSIVE StrLength(_)
StrLength(text) ==
  IF text = <<>> THEN 0
  ELSE (IF Head(text) < 65536 THEN 1 ELSE 2) + StrLength(Tail(text))

\* The bytes Buffer.write stores when at most n bytes may be written: the
\* encodings of the leading characters that fit entirely; a character that
\* does not fit is not written, nor is anything after it.
RECURSIVE EncodeFit(_, _)
EncodeFit(text, n) ==
  IF text = <<>> THEN <<>>
  ELSE LET c == UTF8Char(Head(text)) IN
       IF Len(c) > n THEN <<>>
       ELSE c \o EncodeFit(Tail(text), n - Len(c))

(***************************************************************************)
(* The storage primitive (Node.js Buffer).                                 *)
(***************************************************************************)
NoBuffer == [present |-> FALSE, id |-> 0, bytes |-> <<>>]

\* Buffer.alloc(size, fill): a new block (identity id) of `size` bytes, each
\* equal to fill.
BufferAlloc(n, fill, id) ==
  [present |-> TRUE, id |-> id, bytes |-> [i \in 1..n |-> fill]]

Min(a, b) == IF a < b THEN a ELSE b
Max(a, b) == IF a > b THEN a ELSE b

\* source.copy(target, 0, 0, sourceEnd): copies the bytes [0, sourceEnd) that
\* exist in the source and fit in the target.
BufferCopy(source, target, sourceEnd) ==
  LET nb == Min(Min(sourceEnd, Len(source)), Len(target)) IN
  [i \in 1..Len(target) |-> IF i <= nb THEN source[i] ELSE target[i]]

\* buf.write(string, offset, length): stores at most `length` bytes, and at
\* most the bytes that remain after offset; returns the bytes and the count.
BufferWrite(bytes, text, offset, length) ==
  LET w == EncodeFit(text, Min(length, Len(bytes) - offset)) IN
  [bytes |-> [i \in 1..Len(bytes) |->
                IF i > offset /\ i <= offset + Len(w) THEN w[i - offset]
                ELSE bytes[i]],
   count |-> Len(w)]

(***************************************************************************)
(* The region: the fields of a DynamicBuffer object.                       *)
(***************************************************************************)
VARIABLES
  alive,    \* TRUE iff the constructor returned an object
  buffer,   \* private buffer?: Buffer
  size,     \* private size: number
  used,     \* private used: number
  factor,   \* private factor: number
  fillVal,  \* private fillVal
  props,    \* own properties of the object with a numeric key below 0
  last,     \* the most recent public call: arguments, outcome, prior fields
  ops,      \* number of public calls made since construction
  exported, \* the Buffer most recently returned by toBuffer or subarray
  iter      \* the iterator most recently returned by entries, keys or values

vars == <<alive, buffer, size, used, factor, fillVal, props, last, ops,
          exported, iter>>

\* The fields as one record.
This == [buffer |-> buffer, size |-> size, used |-> used,
         factor |-> factor, fillVal |-> fillVal]

\* The logical content: the used bytes that exist in the block.
Logical(r) == SubSeq(r.buffer.bytes, 1, Min(r.used, Len(r.buffer.bytes)))

\* A resize that copies the whole old block instead of its first used bytes.
resize_CopiesAll(r, newSize) ==
  LET newBuffer == BufferAlloc(newSize, r.fillVal, r.buffer.id + 1) IN
  [r EXCEPT
     !.buffer = IF r.buffer.present
                  THEN [newBuffer EXCEPT
                          !.bytes = BufferCopy(r.buffer.bytes, newBuffer.bytes,
                                               Len(r.buffer.bytes))]
                  ELSE newBuffer,
     !.size = newSize]

(***************************************************************************)
(* private resize(newSize)                                                 *)
(***************************************************************************)
resize(r, newSize) ==
  LET newBuffer == BufferAlloc(newSize, r.fillVal, r.buffer.id + 1) IN
  [r EXCEPT
     !.buffer = IF r.buffer.present /\ r.used > 0
                  THEN [newBuffer EXCEPT
                          !.bytes = BufferCopy(r.buffer.bytes, newBuffer.bytes,
                                               r.used)]
                  ELSE newBuffer,
     !.size = newSize]

\* Math.ceil(size * (1 + factor)) for a factor num/den.
sizeWithFactor(sz, f) == (sz * (f.den + f.num) + f.den - 1) \div f.den

\* A growth that rounds size * (1 + factor) down instead of up.
newSize_RoundsDown(sz, f, expectSize) ==
  LET swf == (sz * (f.den + f.num)) \div f.den
      n == IF expectSize > swf THEN expectSize ELSE swf
  IN IF n > MAX_LENGTH THEN MAX_LENGTH ELSE n

\* A growth that is not limited to MAX_LENGTH.
newSize_Unclamped(sz, f, expectSize) ==
  LET swf == sizeWithFactor(sz, f)
  IN IF expectSize > swf THEN expectSize ELSE swf

\* The size ensureSize passes to resize.
newSize(sz, f, expectSize) ==
  LET swf == sizeWithFactor(sz, f)
      n == IF expectSize > swf THEN expectSize ELSE swf
  IN IF n > MAX_LENGTH THEN MAX_LENGTH ELSE n

(***************************************************************************)
(* private ensureSize(expectSize)                                          *)
(***************************************************************************)
ensureSize(r, expectSize) ==
  IF r.size >= expectSize THEN [r |-> r, err |-> "none"]
  ELSE IF expectSize > MAX_LENGTH THEN [r |-> r, err |-> "Overflow"]
  ELSE [r |-> resize(r, newSize(r.size, r.factor, expectSize)),
        err |-> "none"]

\* The number of bytes writeData asks Buffer.write to store.
lengthToWrite(text, length) ==
  IF length.def /\ length.val >= 0 /\ length.val <= StrLength(text)
    THEN length.val
    ELSE StrLength(text)

(***************************************************************************)
(* private writeData(data, offset, length)                                 *)
(* data is [str |-> BOOLEAN, text |-> code points]; str is FALSE for a     *)
(* value that is not a string.  `expect` is the argument of ensureSize, or *)
(* -1 when ensureSize is not called.                                       *)
(***************************************************************************)
writeData(r, data, offset, length) ==
  IF ~data.str
    THEN [r |-> r, count |-> 0, err |-> "TypeError", ltw |-> 0, expect |-> -1]
  ELSE LET ltw == lengthToWrite(data.text, length) IN
    IF ltw = 0
      THEN [r |-> r, count |-> 0, err |-> "none", ltw |-> 0, expect |-> -1]
    ELSE LET e == ensureSize(r, ltw + offset) IN
      IF e.err # "none"
        THEN [r |-> r, count |-> 0, err |-> e.err, ltw |-> ltw,
              expect |-> ltw + offset]
      ELSE LET w == BufferWrite(e.r.buffer.bytes, data.text, offset, ltw) IN
        [r |-> [e.r EXCEPT !.buffer.bytes = w.bytes],
         count |-> w.count, err |-> "none", ltw |-> ltw,
         expect |-> ltw + offset]

(***************************************************************************)
(* append(data, length)                                                    *)
(***************************************************************************)
append(r, data, length) ==
  LET w == writeData(r, data, r.used, length) IN
  IF w.err # "none" THEN [w EXCEPT !.r = r]
  ELSE [w EXCEPT !.r = [w.r EXCEPT !.used = r.used + w.count]]

\* A write that never moves used backwards.
write_NeverShrinks(r, data, offset, length) ==
  IF offset < 0
    THEN [r |-> r, count |-> 0, err |-> "RangeError", ltw |-> 0, expect |-> -1]
  ELSE LET w == writeData(r, data, offset, length) IN
    IF w.err # "none" THEN [w EXCEPT !.r = r]
    ELSE [w EXCEPT !.r = [w.r EXCEPT !.used = Max(r.used, offset + w.count)]]

\* A write that takes a negative offset for 0 instead of rejecting it.
write_ClampsOffset(r, data, offset, length) ==
  LET o == IF offset < 0 THEN 0 ELSE offset
      w == writeData(r, data, o, length)
  IN IF w.err # "none" THEN [w EXCEPT !.r = r]
     ELSE [w EXCEPT !.r = [w.r EXCEPT !.used = o + w.count]]

(***************************************************************************)
(* write(data, offset, length)                                             *)
(***************************************************************************)
write(r, data, offset, length) ==
  IF offset < 0
    THEN [r |-> r, count |-> 0, err |-> "RangeError", ltw |-> 0, expect |-> -1]
  ELSE LET w == writeData(r, data, offset, length) IN
    IF w.err # "none" THEN [w EXCEPT !.r = r]
    ELSE [w EXCEPT !.r = [w.r EXCEPT !.used = offset + w.count]]

(***************************************************************************)
(* private calculateOffsets(start?, end?)                                  *)
(***************************************************************************)
calculateOffsets(r, start, end) ==
  [startOffset |-> IF ~start.def \/ start.val = 0 \/ start.val < 0 THEN 0
                   ELSE IF start.val > r.used THEN r.used
                   ELSE start.val,
   endOffset |-> IF ~end.def \/ end.val > r.used THEN r.used ELSE end.val]

\* UTF-8 decoding as buf.toString does it: an ill-formed sequence gives
\* U+FFFD (65533) for its maximal valid prefix, and decoding resumes after it.
RECURSIVE Decode(_)
Decode(b) ==
  IF b = <<>> THEN <<>>
  ELSE
    LET b1 == b[1]
        need == IF b1 < 128 THEN 0
                ELSE IF b1 >= 194 /\ b1 <= 223 THEN 1
                ELSE IF b1 >= 224 /\ b1 <= 239 THEN 2
                ELSE IF b1 >= 240 /\ b1 <= 244 THEN 3
                ELSE -1
        lo2 == IF b1 = 224 THEN 160 ELSE IF b1 = 240 THEN 144 ELSE 128
        hi2 == IF b1 = 237 THEN 159 ELSE IF b1 = 244 THEN 143 ELSE 191
        Cont(i, lo, hi) == i <= Len(b) /\ b[i] >= lo /\ b[i] <= hi
        Rest(i) == SubSeq(b, i, Len(b))
    IN
    IF need = 0 THEN <<b1>> \o Decode(Rest(2))
    ELSE IF need = -1 \/ ~Cont(2, lo2, hi2) THEN <<65533>> \o Decode(Rest(2))
    ELSE IF need = 1
      THEN <<(b1 - 192) * 64 + (b[2] - 128)>> \o Decode(Rest(3))
    ELSE IF ~Cont(3, 128, 191) THEN <<65533>> \o Decode(Rest(3))
    ELSE IF need = 2
      THEN <<(b1 - 224) * 4096 + (b[2] - 128) * 64 + (b[3] - 128)>>
           \o Decode(Rest(4))
    ELSE IF ~Cont(4, 128, 191) THEN <<65533>> \o Decode(Rest(4))
    ELSE <<(b1 - 240) * 262144 + (b[2] - 128) * 4096 + (b[3] - 128) * 64
           + (b[4] - 128)>> \o Decode(Rest(5))

(***************************************************************************)
(* toString(encoding, start, end)                                          *)
(***************************************************************************)
toString(r, start, end) ==
  IF ~r.buffer.present \/ r.used = 0 THEN <<>>
  ELSE LET o == calculateOffsets(r, start, end) IN
       IF o.endOffset - o.startOffset = 0 THEN <<>>
       ELSE Decode(SubSeq(r.buffer.bytes, o.startOffset + 1,
                          Min(o.endOffset, Len(r.buffer.bytes))))

\* The outcome of a call that writes no string.
Done(r, err) == [r |-> r, count |-> 0, err |-> err, ltw |-> 0, expect |-> -1]

(***************************************************************************)
(* source.copy(target, targetStart, sourceStart, sourceEnd), where target  *)
(* is a DynamicBuffer: r is the target, src the source region.             *)
(***************************************************************************)
copy(src, r, targetStart, sourceStart, sourceEnd) ==
  IF targetStart < 0 \/ sourceStart < 0 THEN Done(r, "RangeError")
  ELSE LET e == IF ~sourceEnd.def \/ sourceEnd.val > src.used
                  THEN src.used ELSE sourceEnd.val
       IN write(r, [str |-> TRUE,
                    text |-> toString(src, Arg(sourceStart), Arg(e))],
                targetStart, Undefined)

(***************************************************************************)
(* region[p] = newValue: the Proxy set trap and private writeByte          *)
(***************************************************************************)
writeByte(r, value, offset) ==
  IF ~r.buffer.present \/ r.used = 0 \/ offset >= r.used THEN r
  ELSE [r EXCEPT !.buffer.bytes =
          [i \in 1..Len(r.buffer.bytes) |->
             IF i = offset + 1 THEN value % 256 ELSE r.buffer.bytes[i]]]

indexedSet(r, p, value) ==
  IF p >= 0 THEN Done(writeByte(r, value, p), "none") ELSE Done(r, "none")

\* The own properties after the set trap: for a key below 0 the trap falls
\* through to Reflect.set, which defines the property on the object.  A
\* property is a pair <<key, value>>.
definedBySet(own, p, value) ==
  IF p >= 0 THEN own
  ELSE {q \in own : q[1] # p} \cup {<<p, value>>}

(***************************************************************************)
(* set(array, offset)                                                      *)
(***************************************************************************)
set(r, array, offset) ==
  IF Len(array) > 0 /\ (offset < 0 \/ offset > r.used - Len(array))
    THEN Done(r, "RangeError")
  ELSE IF ~r.buffer.present \/ r.used <= 0 THEN Done(r, "none")
  ELSE LET o == calculateOffsets(r, Arg(0), Arg(r.used))
           viewLen == Max(0, Min(o.endOffset, Len(r.buffer.bytes))
                             - o.startOffset)
       IN IF offset < 0 \/ offset + Len(array) > viewLen
            THEN Done(r, "RangeError")
            ELSE Done([r EXCEPT !.buffer.bytes =
                         [i \in 1..Len(r.buffer.bytes) |->
                            IF i > o.startOffset + offset
                               /\ i <= o.startOffset + offset + Len(array)
                              THEN array[i - o.startOffset - offset]
                              ELSE r.buffer.bytes[i]]],
                      "none")

(***************************************************************************)
(* fill(value, offset, end) with a byte value                              *)
(***************************************************************************)
fill(r, value, offset, end) ==
  IF ~r.buffer.present \/ r.used = 0 \/ end - offset <= 0 THEN Done(r, "none")
  ELSE IF offset < 0 \/ offset > r.used - 1 THEN Done(r, "RangeError")
  ELSE IF end < 0 \/ end > r.used THEN Done(r, "RangeError")
  ELSE IF end > Len(r.buffer.bytes) THEN Done(r, "RangeError")
  ELSE Done([r EXCEPT !.buffer.bytes =
               [i \in 1..Len(r.buffer.bytes) |->
                  IF i > offset /\ i <= end THEN value % 256
                  ELSE r.buffer.bytes[i]]],
            "none")

(***************************************************************************)
(* constructor(data?, options?)                                            *)
(* opts is [size, factor, fill]; data is a string, or NoData when the      *)
(* constructor is called without initial data.                             *)
(***************************************************************************)
NoData == [str |-> FALSE, text |-> <<>>]
Str(t) == [str |-> TRUE, text |-> t]
NoOptions == [size |-> Undefined, factor |-> NoFactor, fill |-> Undefined]
NoRegion == [buffer |-> NoBuffer, size |-> 0, used |-> 0,
             factor |-> DefaultResizeFactor, fillVal |-> 0]

\* this.size after lines 163-171: the requested or default size, raised to
\* data.length when the initial data is longer.
initialSize(data, opts) ==
  LET requested == IF opts.size.def THEN opts.size.val
                   ELSE DefaultInitialSize
  IN IF data.str /\ data.text # <<>> /\ StrLength(data.text) > requested
       THEN StrLength(data.text)
       ELSE requested

\* this.factor after line 180.
initialFactor(opts) ==
  IF Falsy(opts.factor) THEN DefaultResizeFactor ELSE opts.factor

\* this.fillVal after line 178.
initialFill(opts) ==
  IF opts.fill.def /\ opts.fill.val # 0 THEN opts.fill.val ELSE 0

constructor(data, opts) ==
  LET sz == initialSize(data, opts)
      f == initialFactor(opts)
      fv == initialFill(opts)
  IN
  IF sz < 0 \/ sz > MAX_LENGTH
    THEN [alive |-> FALSE, r |-> NoRegion, err |-> "InvalidSize"]
  ELSE IF f.num <= 0 \/ f.kind = "NaN"
    THEN [alive |-> FALSE, r |-> NoRegion, err |-> "InvalidFactor"]
  ELSE
    LET r0 == [buffer |-> IF sz > 0 THEN BufferAlloc(sz, fv, 1) ELSE NoBuffer,
               size |-> sz, used |-> 0, factor |-> f, fillVal |-> fv]
    IN IF data.str /\ data.text # <<>>
         THEN LET a == append(r0, data, Undefined) IN
              [alive |-> a.err = "none", r |-> a.r, err |-> a.err]
         ELSE [alive |-> TRUE, r |-> r0, err |-> "none"]

(***************************************************************************)
(* A Buffer handed out by the region.  It lives in a block of its own      *)
(* (block = OwnBlock, its content is `bytes`), or it is a view of the      *)
(* len = Len(bytes) bytes from offset `start` of the block with identity   *)
(* `block`: while the region keeps that block the content of the view is   *)
(* the content of the block, and a store through one is seen by the other. *)
(* `held` is what the holder of the Buffer last saw in it or stored in it. *)
(***************************************************************************)
OwnBlock == 0
NoExport ==
  [via |-> "none", block |-> OwnBlock, start |-> 0, bytes |-> <<>>,
   held |-> <<>>]

Attached(e) == e.block # OwnBlock /\ buffer.present /\ e.block = buffer.id

Content(e) ==
  IF Attached(e) THEN SubSeq(buffer.bytes, e.start + 1, e.start + Len(e.bytes))
  ELSE e.bytes

\* The handed out Buffer after a call that leaves the region as r: when the
\* region replaces its block, a view stays with the block that was replaced.
Kept(e, r) ==
  IF Attached(e) /\ r.buffer.id # buffer.id
    THEN [e EXCEPT !.bytes = Content(e)]
    ELSE e

\* An iterator: its kind and the private field index.
NoIterator == [kind |-> "none", index |-> 0]

(***************************************************************************)
(* The record of the most recent public call.                              *)
(***************************************************************************)
Call(op, data, offset, length, opts, res, pre) ==
  [op |-> op, data |-> data, offset |-> offset, length |-> length,
   opts |-> opts, err |-> res.err, ret |-> res.count, ltw |-> res.ltw,
   expect |-> res.expect, pre |-> pre]

\* The fields after a call returned or threw.
Becomes(r) ==
  /\ buffer' = r.buffer
  /\ size' = r.size
  /\ used' = r.used
  /\ factor' = r.factor
  /\ fillVal' = r.fillVal

(***************************************************************************)
(* Initial states: the outcome of `new DynamicBuffer(data, options)`.      *)
(***************************************************************************)
Constructed(datas, sizes, factors, fills) ==
  \E data \in datas, sz \in sizes, f \in factors, fv \in fills :
    LET opts == [size |-> sz, factor |-> f, fill |-> fv]
        c == constructor(data, opts)
    IN /\ alive = c.alive
       /\ buffer = c.r.buffer
       /\ size = c.r.size
       /\ used = c.r.used
       /\ factor = c.r.factor
       /\ fillVal = c.r.fillVal
       /\ props = {}
       /\ last = Call("new", data, 0, Undefined, opts,
                      [err |-> c.err, count |-> 0, ltw |-> 0, expect |-> -1],
                      NoRegion)
       /\ ops = 0
       /\ exported = NoExport
       /\ iter = NoIterator

(***************************************************************************)
(* Public calls.  A call that throws leaves the fields to what they were   *)
(* when the exception left the method.                                     *)
(***************************************************************************)
Returns(op, data, offset, length, res) ==
  /\ Becomes(res.r)
  /\ last' = Call(op, data, offset, length, NoOptions, res, This)
  /\ ops' = ops + 1
  /\ exported' = Kept(exported, res.r)
  /\ UNCHANGED <<alive, iter>>

\* A call that leaves the own properties of the object alone.
Method(op, data, offset, length, res) ==
  /\ Returns(op, data, offset, length, res)
  /\ UNCHANGED props

CallAppend(data, length) ==
  /\ alive /\ ops < MaxOps
  /\ Method("append", data, used, length, append(This, data, length))

CallWrite(data, offset, length) ==
  /\ alive /\ ops < MaxOps
  /\ Method("write", data, offset, length,
             write(This, data, offset, length))

\* source.copy(this, targetStart, sourceStart, sourceEnd), the source being
\* `new DynamicBuffer(text)`.
CallCopy(text, targetStart, sourceStart, sourceEnd) ==
  /\ alive /\ ops < MaxOps
  /\ Method("copy", [str |-> TRUE, text |-> text, sourceStart |-> sourceStart],
             targetStart, sourceEnd,
             copy(constructor(Str(text), NoOptions).r, This, targetStart,
                  sourceStart, sourceEnd))

\* this[p] = value
CallIndexedSet(p, value) ==
  /\ alive /\ ops < MaxOps
  /\ Returns("indexedSet", [str |-> FALSE, text |-> <<value>>], p, Undefined,
             indexedSet(This, p, value))
  /\ props' = definedBySet(props, p, value)

CallSet(array, offset) ==
  /\ alive /\ ops < MaxOps
  /\ Method("set", [str |-> FALSE, text |-> array], offset, Undefined,
             set(This, array, offset))

CallFill(value, offset, end) ==
  /\ alive /\ ops < MaxOps
  /\ Method("fill", [str |-> FALSE, text |-> <<value>>], offset, Arg(end),
             fill(This, value, offset, end))

\* append(data) in a run that makes no other call.
AppendOnly(data) ==
  /\ alive /\ ops < MaxAppends
  /\ Method("append", data, used, Undefined, append(This, data, Undefined))

(***************************************************************************)
(* Inputs.                                                                 *)
(***************************************************************************)
\* "" , "AB", "éA" (the first character takes two bytes), "Hello world"
Empty == <<>>
TextAB == <<65, 66>>
TextEA == <<233, 65>>
HelloWorld == <<72, 101, 108, 108, 111, 32, 119, 111, 114, 108, 100>>

AppendTexts == {Str(Empty), Str(TextAB), Str(TextEA), Str(HelloWorld)}
AppendLengths == {Undefined, Arg(1), Arg(-1)}
WriteTexts == {Str(Empty), Str(TextAB), Str(TextEA)}
WriteOffsets == {-1, 0, 1, 3, DefaultInitialSize + 1, MAX_LENGTH + 1}
WriteLengths == {Undefined, Arg(0)}
\* An argument that is not a string: a number, null, or no argument.
NotText == NoData

(***************************************************************************)
(* The specification: a region built with or without initial data, then at *)
(* most MaxOps public calls.                                               *)
(***************************************************************************)
Init ==
  Constructed({NoData, Str(TextAB)},
              {Undefined, Arg(-1), Arg(0), Arg(2), Arg(3), Arg(10),
               Arg(MAX_LENGTH + 1)},
              {NoFactor, Num(2, 1), Num(1, 2)}, {Undefined, Arg(32)})

Next ==
  \/ \E d \in AppendTexts, n \in AppendLengths : CallAppend(d, n)
  \/ \E d \in WriteTexts, o \in WriteOffsets, n \in WriteLengths :
       CallWrite(d, o, n)
  \/ CallAppend(NotText, Undefined)
  \/ \E o \in {-1, 0} : CallWrite(NotText, o, Undefined)
  \/ \E t \in {Empty, TextAB}, o \in {0, MAX_LENGTH + 1} :
       CallCopy(t, o, 0, Undefined)
  \/ \E p \in {-1, 0, DefaultInitialSize + 1} : CallIndexedSet(p, 66)
  \/ \E o \in {0, 1} : CallSet(<<66>>, o)
  \/ \E o \in {0, 1} : CallFill(66, o, 2)

Spec == Init /\ [][Next]_vars

(***************************************************************************)
(* The append-only specification: a region built without initial data,     *)
(* with every initial size and factor of the inputs, then append(data)     *)
(* calls and nothing else.                                                 *)
(***************************************************************************)
TextE == <<233>>

InitAppend ==
  Constructed({NoData}, {Undefined, Arg(0), Arg(1), Arg(2), Arg(10)},
              {NoFactor, Num(2, 1), Num(1, 2)}, {Undefined, Arg(32)})

NextAppend ==
  \E d \in {Str(Empty), Str(TextAB), Str(TextE), Str(TextEA),
            Str(HelloWorld)} : AppendOnly(d)

SpecAppend == InitAppend /\ [][NextAppend]_vars

(***************************************************************************)
(* The construction specification: every outcome of the constructor over   *)
(* the sizes, factors, fill values and initial data of the inputs, then    *)
(* appends to the object if there is one.                                  *)
(***************************************************************************)
TextEE == <<233, 233>>

CtorSizes ==
  {Undefined, Arg(-1), Arg(0), Arg(1), Arg(2), Arg(MAX_LENGTH),
   Arg(MAX_LENGTH + 1)}
CtorFactors ==
  {NoFactor, Num(3, 4), Num(2, 1), Num(1, 2), Num(0, 1), Num(-1, 1), NaN}
CtorData ==
  {NoData, Str(Empty), Str(TextAB), Str(TextE), Str(TextEE), Str(HelloWorld)}

InitCtor == Constructed(CtorData, CtorSizes, CtorFactors, {Undefined, Arg(32)})

NextCtor == \E d \in {Str(TextAB)} : AppendOnly(d)

SpecCtor == InitCtor /\ [][NextCtor]_vars

(***************************************************************************)
(* Reading.  A method that returns `undefined` returns Absent; a byte is   *)
(* in 0..255.                                                              *)
(***************************************************************************)
Absent == -1

\* buffer[i] of a Node.js Buffer: undefined outside of the block.
BufferGet(bytes, i) ==
  IF i >= 0 /\ i < Len(bytes) THEN bytes[i + 1] ELSE Absent

\* Buffer.prototype.at(k): a negative k counts from the end of the block.
BufferAt(bytes, k) ==
  BufferGet(bytes, IF k < 0 THEN k + Len(bytes) ELSE k)

(***************************************************************************)
(* read(offset = 0)                                                        *)
(***************************************************************************)
read(r, offset) ==
  LET o == IF offset.def THEN offset.val ELSE 0 IN
  IF ~r.buffer.present \/ o < 0 \/ o >= r.used THEN Absent
  ELSE BufferGet(r.buffer.bytes, o)

(***************************************************************************)
(* region[p]: the Proxy get trap.  own is the set of own properties with a *)
(* numeric key below 0.                                                    *)
(***************************************************************************)
indexedGet(r, own, p) ==
  IF \E q \in own : q[1] = p THEN (CHOOSE q \in own : q[1] = p)[2]
  ELSE IF p >= 0 THEN read(r, Arg(p))
  ELSE Absent

\* An at that counts a negative index from the end of the block.
at_FromCapacity(r, index, hasAt) ==
  IF ~r.buffer.present \/ index >= r.used THEN Absent
  ELSE IF index >= 0 THEN BufferGet(r.buffer.bytes, index)
  ELSE BufferAt(r.buffer.bytes, index)

(***************************************************************************)
(* at(index).  hasAt tells whether the runtime has Buffer.prototype.at     *)
(* (Node.js 16.6 and later) or not (the branch for Node 14 and lower).     *)
(***************************************************************************)
at(r, index, hasAt) ==
  IF ~r.buffer.present \/ index >= r.used THEN Absent
  ELSE IF index >= 0 THEN BufferGet(r.buffer.bytes, index)
  ELSE IF hasAt THEN BufferAt(r.buffer.bytes, index - (r.size - r.used))
  ELSE IF index + r.used < 0 THEN Absent
  ELSE BufferGet(r.buffer.bytes, index + r.used)

(***************************************************************************)
(* Searching.  A value to search for is a string, a byte sequence (Buffer  *)
(* or Uint8Array), a number, or a DynamicBuffer.                           *)
(***************************************************************************)
StrValue(t) == [kind |-> "string", text |-> t, region |-> NoRegion]
BytesValue(b) == [kind |-> "bytes", text |-> b, region |-> NoRegion]
NumValue(n) == [kind |-> "number", text |-> <<n>>, region |-> NoRegion]
RegionValue(r) == [kind |-> "region", text |-> <<>>, region |-> r]

\* buffer.subarray(0, end): the bytes [0, end) that exist in the block.
Subarray(bytes, end) == SubSeq(bytes, 1, Max(0, Min(end, Len(bytes))))

\* `search` of indexOfWithDir: a DynamicBuffer is replaced by the view of
\* its used bytes, or by '' if it has no block.
searchOf(value) ==
  IF value.kind = "region"
    THEN IF value.region.buffer.present
           THEN BytesValue(Subarray(value.region.buffer.bytes,
                                    value.region.used))
           ELSE StrValue(<<>>)
    ELSE value

\* The bytes Buffer.indexOf looks for: a string is encoded, a number is one
\* byte.
NeedleBytes(search) ==
  IF search.kind = "string" THEN Encode(search.text)
  ELSE IF search.kind = "number" THEN <<search.text[1] % 256>>
  ELSE search.text

\* IndexOfOffset of node_buffer.cc: the offset at which a search starts, or
\* -1 when no match is possible.
IndexOfOffset(length, offset, needleLength, isForward) ==
  IF offset < 0
    THEN IF offset + length >= 0 THEN length + offset
         ELSE IF isForward \/ needleLength = 0 THEN 0
         ELSE -1
    ELSE IF offset + needleLength <= length THEN offset
         ELSE IF needleLength = 0 THEN length
         ELSE IF isForward THEN -1
         ELSE length - 1

\* The needle lies in the haystack at offset i.
MatchAt(hay, needle, i) ==
  /\ i >= 0 /\ i + Len(needle) <= Len(hay)
  /\ SubSeq(hay, i + 1, i + Len(needle)) = needle

\* Buffer.prototype.indexOf / lastIndexOf (search, byteOffset) of Node.js.
BufferIndexOf(hay, search, byteOffset, isForward) ==
  LET needle == NeedleBytes(search)
      nl == Len(needle)
      hl == Len(hay)
      opt == IndexOfOffset(hl, byteOffset, nl, isForward)
      Hits == IF isForward
                THEN {i \in 0..hl : i >= opt /\ MatchAt(hay, needle, i)}
                ELSE {i \in 0..hl : i <= opt /\ MatchAt(hay, needle, i)}
  IN IF nl = 0 THEN opt
     ELSE IF hl = 0 \/ opt <= -1 THEN -1
     ELSE IF (isForward /\ nl + opt > hl) \/ nl > hl THEN -1
     ELSE IF Hits = {} THEN -1
     ELSE IF isForward THEN CHOOSE i \in Hits : \A k \in Hits : i <= k
     ELSE CHOOSE i \in Hits : \A k \in Hits : i >= k

\* A search in the whole block instead of the used bytes.
indexOfWithDir_WholeBlock(r, isFirst, value, byteOffset) ==
  LET search == searchOf(value) IN
  IF ~r.buffer.present \/ r.used = 0
    THEN IF search.kind # "number" /\ Len(search.text) = 0 THEN 0 ELSE -1
  ELSE LET s == IF byteOffset >= 0 THEN byteOffset ELSE r.used + byteOffset
           start == IF s >= r.used THEN r.used ELSE s
       IN BufferIndexOf(r.buffer.bytes, search, start, isFirst)

(***************************************************************************)
(* private indexOfWithDir(isFirst, value, byteOffset, encoding)            *)
(***************************************************************************)
indexOfWithDir(r, isFirst, value, byteOffset) ==
  LET search == searchOf(value) IN
  IF ~r.buffer.present \/ r.used = 0
    THEN IF search.kind # "number" /\ Len(search.text) = 0 THEN 0 ELSE -1
  ELSE LET s == IF byteOffset >= 0 THEN byteOffset ELSE r.used + byteOffset
           start == IF s >= r.used THEN r.used ELSE s
       IN BufferIndexOf(Subarray(r.buffer.bytes, r.used), search, start,
                        isFirst)

(***************************************************************************)
(* indexOf(value, byteOffset = 0), lastIndexOf(value, byteOffset =         *)
(* this.length), includes(value, byteOffset = 0)                           *)
(***************************************************************************)
indexOf(r, value, byteOffset) ==
  indexOfWithDir(r, TRUE, value,
                 IF byteOffset.def THEN byteOffset.val ELSE 0)

\* A lastIndexOf that searches forward.
lastIndexOf_Forward(r, value, byteOffset) ==
  indexOfWithDir(r, TRUE, value,
                 IF byteOffset.def THEN byteOffset.val ELSE r.used)

lastIndexOf(r, value, byteOffset) ==
  indexOfWithDir(r, FALSE, value,
                 IF byteOffset.def THEN byteOffset.val ELSE r.used)

includes(r, value, byteOffset) ==
  indexOf(r, value, Arg(IF byteOffset.def THEN byteOffset.val ELSE 0)) # -1

(***************************************************************************)
(* compare(target, targetStart = 0, targetEnd = target.length,             *)
(*         sourceStart = 0, sourceEnd = this.length), target being a       *)
(* DynamicBuffer.                                                          *)
(***************************************************************************)
compare(r, target, targetStart, targetEnd, sourceStart, sourceEnd) ==
  LET otherBuf == target.buffer.bytes
      thisBuf == r.buffer.bytes
      i0 == IF targetStart.def THEN targetStart.val ELSE 0
      tEnd == IF targetEnd.def THEN targetEnd.val ELSE target.used
      j0 == IF sourceStart.def THEN sourceStart.val ELSE 0
      sEnd == IF sourceEnd.def THEN sourceEnd.val ELSE r.used
      \* the number of turns of the loop if no two bytes differ
      n == Max(0, Min(Min(tEnd - i0, sEnd - j0),
                      Min(target.used - i0, r.used - j0)))
      Differ(k) == BufferGet(thisBuf, j0 + k) # BufferGet(otherBuf, i0 + k)
  IN IF \E k \in 0..(n - 1) : Differ(k)
       THEN LET k == CHOOSE k \in 0..(n - 1) :
                       Differ(k) /\ \A m \in 0..(k - 1) : ~Differ(m)
                a == BufferGet(thisBuf, j0 + k)
                b == BufferGet(otherBuf, i0 + k)
            IN IF a # Absent /\ b # Absent /\ a > b THEN 1 ELSE -1
     ELSE LET i == i0 + n
              j == j0 + n
          IN IF i < tEnd \/ (i < target.used /\ target.used < tEnd) THEN -1
             ELSE IF j < sEnd \/ (j < r.used /\ r.used < sEnd) THEN 1
             ELSE 0

(***************************************************************************)
(* equals(otherBuffer): TRUE iff compare over the two whole regions is 0.  *)
(***************************************************************************)
equals(r, otherBuffer) ==
  compare(r, otherBuffer, Arg(0), Arg(otherBuffer.used), Arg(0), Arg(r.used))
    = 0

(***************************************************************************)
(* Calls that read the region and change nothing.  A call that reads is    *)
(* made after construction or after a call that may change the region: a   *)
(* read that follows a read finds the region and the own properties as the *)
(* first read found them, and `last` keeps only the most recent call, so a *)
(* second read in a row reaches no state that a first read does not.       *)
(***************************************************************************)
Reads ==
  {"read", "indexedGet", "at", "indexOf", "lastIndexOf", "includes", "compare",
   "equals", "toString", "toJSON", "forOf", "compareEnds"}

Answers(op, value, offset, length, v) ==
  /\ alive /\ last.op \notin Reads
  /\ last' = Call(op, value, offset, length, NoOptions,
                  [Done(This, "none") EXCEPT !.count = v], This)
  /\ UNCHANGED <<alive, buffer, size, used, factor, fillVal, props, ops,
                 exported, iter>>

CallRead(offset) ==
  Answers("read", NoData, IF offset.def THEN offset.val ELSE 0, offset,
          read(This, offset))

\* this[p]
CallIndexedGet(p) ==
  Answers("indexedGet", NoData, p, Undefined, indexedGet(This, props, p))

CallAt(index, hasAt) ==
  Answers("at", [str |-> FALSE, text |-> <<>>, hasAt |-> hasAt], index,
          Undefined, at(This, index, hasAt))

CallIndexOf(value, byteOffset) ==
  Answers("indexOf", value, IF byteOffset.def THEN byteOffset.val ELSE 0,
          byteOffset, indexOf(This, value, byteOffset))

CallLastIndexOf(value, byteOffset) ==
  Answers("lastIndexOf", value,
          IF byteOffset.def THEN byteOffset.val ELSE used, byteOffset,
          lastIndexOf(This, value, byteOffset))

\* The answer of includes is 1 for true and 0 for false.
CallIncludes(value, byteOffset) ==
  Answers("includes", value, IF byteOffset.def THEN byteOffset.val ELSE 0,
          byteOffset,
          IF includes(This, value, byteOffset) THEN 1 ELSE 0)

\* this.compare(target) with the default ranges.
CallCompare(target) ==
  Answers("compare", RegionValue(target), 0, Undefined,
          compare(This, target, Undefined, Undefined, Undefined, Undefined))

\* this.compare(this)
CallCompareSelf ==
  Answers("compare", RegionValue(This), 0, Undefined,
          compare(This, This, Undefined, Undefined, Undefined, Undefined))

\* this.compare(target, 0, targetEnd) for targetEnd = target.length + over,
\* and this.compare(target, 0, target.length, 0, sourceEnd) for sourceEnd =
\* this.length + over.
CallCompareEnds(target, ofTarget, over) ==
  Answers("compareEnds",
          [RegionValue(target) EXCEPT !.kind = IF ofTarget THEN "targetEnd"
                                               ELSE "sourceEnd"],
          over, Undefined,
          IF ofTarget
            THEN compare(This, target, Arg(0), Arg(target.used + over),
                         Undefined, Undefined)
            ELSE compare(This, target, Arg(0), Arg(target.used), Arg(0),
                         Arg(used + over)))

\* this.equals(otherBuffer); the answer is 1 for true and 0 for false.
CallEquals(otherBuffer) ==
  Answers("equals", RegionValue(otherBuffer), 0, Undefined,
          IF equals(This, otherBuffer) THEN 1 ELSE 0)

(***************************************************************************)
(* The reading specification: a region built with or without initial data, *)
(* at most MaxOps calls that change it, and any number of calls that read  *)
(* it.                                                                     *)
(***************************************************************************)
TextA == <<65>>
TextABC == <<65, 66, 67>>
ABCABCABC == <<65, 66, 67, 65, 66, 67, 65, 66, 67>>

\* Other regions: empty with and without a block, 'AB', 'ABC', 'AB' cut to
\* 'A' by a write, and two regions after write('', 17).
Built(data, sz) ==
  constructor(data, [size |-> sz, factor |-> NoFactor, fill |-> Undefined]).r
Others ==
  {Built(NoData, Undefined), Built(NoData, Arg(0)), Built(Str(TextAB), Arg(2)),
   Built(Str(TextABC), Undefined),
   write(Built(Str(TextAB), Undefined), Str(TextA), 0, Undefined).r,
   write(Built(NoData, Undefined), Str(Empty), DefaultInitialSize + 1,
         Undefined).r,
   write(Built(NoData, Arg(0)), Str(Empty), DefaultInitialSize + 1,
         Undefined).r}

Needles ==
  {StrValue(Empty), BytesValue(<<>>), StrValue(TextABC), BytesValue(<<66, 67>>),
   NumValue(66), NumValue(0)}
   \cup {RegionValue(o) : o \in Others}
ByteOffsets ==
  {Undefined, Arg(0), Arg(1), Arg(2), Arg(9), Arg(32), Arg(-1), Arg(-2),
   Arg(-9), Arg(-10), Arg(-11), Arg(-19), Arg(-40)}
ReadOffsets ==
  {Undefined, Arg(-1), Arg(0), Arg(1), Arg(2), Arg(DefaultInitialSize),
   Arg(DefaultInitialSize + 1)}
AtIndexes == {-17, -10, -9, -3, -2, -1, 0, 1, 2, 9, DefaultInitialSize}

InitQuery ==
  Constructed({NoData, Str(TextAB), Str(ABCABCABC)},
              {Undefined, Arg(0), Arg(2)}, {NoFactor}, {Undefined, Arg(66)})

NextQuery ==
  \/ \E d \in {Str(Empty), Str(TextA)}, o \in {0, 1, DefaultInitialSize + 1} :
       CallWrite(d, o, Undefined)
  \/ \E p \in {-1, 0} : CallIndexedSet(p, 67)
  \/ \E o \in ReadOffsets : CallRead(o)
  \/ \E p \in {-1, 0, 1, 2, DefaultInitialSize, DefaultInitialSize + 1} :
       CallIndexedGet(p)
  \/ \E i \in AtIndexes, hasAt \in BOOLEAN : CallAt(i, hasAt)
  \/ \E v \in Needles, o \in ByteOffsets : CallIndexOf(v, o)
  \/ \E v \in Needles, o \in ByteOffsets : CallLastIndexOf(v, o)
  \/ \E v \in Needles, o \in {Undefined, Arg(1), Arg(-10)} : CallIncludes(v, o)
  \/ \E t \in Others : CallCompare(t)
  \/ CallCompareSelf
  \/ \E t \in Others : CallEquals(t)
  \/ \E t \in Others, ofTarget \in BOOLEAN, over \in {1, MAX_LENGTH} :
       CallCompareEnds(t, ofTarget, over)

SpecQuery == InitQuery /\ [][NextQuery]_vars

(***************************************************************************)
(* Buffers handed out: toBuffer(start, end) and subarray(start, end).      *)
(* The answer is [err, block, start, bytes]: the block the Buffer lives    *)
(* in, its offset in that block and its bytes.                             *)
(***************************************************************************)
EmptyBuffer == [err |-> "none", block |-> OwnBlock, start |-> 0, bytes |-> <<>>]
Thrown(err) == [EmptyBuffer EXCEPT !.err = err]

\* A toBuffer that returns this.buffer.subarray(startOffset, endOffset).
toBuffer_View(r, start, end) ==
  IF ~r.buffer.present \/ r.used = 0 THEN EmptyBuffer
  ELSE LET o == calculateOffsets(r, start, end)
           n == o.endOffset - o.startOffset
       IN IF n = 0 THEN EmptyBuffer
          ELSE IF n < 0 THEN Thrown("RangeError")
          ELSE IF o.startOffset > Len(r.buffer.bytes) THEN Thrown("RangeError")
          ELSE [err |-> "none", block |-> r.buffer.id, start |-> o.startOffset,
                bytes |-> SubSeq(r.buffer.bytes, o.startOffset + 1,
                                 Min(o.endOffset, Len(r.buffer.bytes)))]

\* Buffer.alloc(n, fillVal) throws a RangeError for n < 0, and
\* buffer.copy(newBuffer, 0, startOffset, endOffset) throws one for a
\* startOffset beyond the block; copy stores the bytes that exist.
toBuffer(r, start, end) ==
  IF ~r.buffer.present \/ r.used = 0 THEN EmptyBuffer
  ELSE LET o == calculateOffsets(r, start, end)
           n == o.endOffset - o.startOffset
       IN IF n = 0 THEN EmptyBuffer
          ELSE IF n < 0 THEN Thrown("RangeError")
          ELSE IF o.startOffset > Len(r.buffer.bytes) THEN Thrown("RangeError")
          ELSE [err |-> "none", block |-> OwnBlock, start |-> 0,
                bytes |-> [k \in 1..n |->
                             IF o.startOffset + k <= Len(r.buffer.bytes)
                               THEN r.buffer.bytes[o.startOffset + k]
                               ELSE r.fillVal]]

\* Buffer.prototype.subarray(b, e) on a block of `length` bytes: an offset
\* below 0 counts from the end of the block, and both are cut to the block.
Relative(v, length) == IF v < 0 THEN Max(length + v, 0) ELSE Min(v, length)

subarray(r, start, end) ==
  LET o == calculateOffsets(r, start, end)
      b == Relative(o.startOffset, Len(r.buffer.bytes))
      e == Relative(o.endOffset, Len(r.buffer.bytes))
  IN IF ~r.buffer.present \/ r.used = 0 THEN EmptyBuffer
     ELSE [err |-> "none", block |-> r.buffer.id, start |-> b,
           bytes |-> SubSeq(r.buffer.bytes, b + 1, e)]

(***************************************************************************)
(* reverse()                                                               *)
(***************************************************************************)
reverse(r) ==
  IF ~r.buffer.present \/ r.used = 0 THEN Done(r, "none")
  ELSE LET n == Min(r.used, Len(r.buffer.bytes)) IN
       Done([r EXCEPT !.buffer.bytes =
               [i \in 1..Len(r.buffer.bytes) |->
                  IF i <= n THEN r.buffer.bytes[n + 1 - i]
                  ELSE r.buffer.bytes[i]]],
            "none")

\* A call that hands out a Buffer b and changes nothing in the region.  The
\* model follows one Buffer: the first that the region hands out.
HandsOut(op, start, end, b) ==
  /\ alive /\ ops < MaxOps /\ exported.via = "none"
  /\ last' = Call(op, NoData, start, end, NoOptions,
                  [Done(This, b.err) EXCEPT !.count = b.bytes], This)
  /\ exported' = IF b.err = "none"
                   THEN [via |-> op, block |-> b.block, start |-> b.start,
                         bytes |-> b.bytes, held |-> b.bytes]
                   ELSE exported
  /\ ops' = ops + 1
  /\ UNCHANGED <<alive, buffer, size, used, factor, fillVal, props, iter>>

CallToBuffer(start, end) ==
  HandsOut("toBuffer", start, end, toBuffer(This, start, end))

CallSubarray(start, end) ==
  HandsOut("subarray", start, end, subarray(This, start, end))

\* toString(encoding, start, end) with the encoding of the region
CallToString(start, end) ==
  Answers("toString", NoData, start, end, toString(This, start, end))

CallReverse ==
  /\ alive /\ ops < MaxOps
  /\ Method("reverse", NoData, 0, Undefined, reverse(This))

\* b[i] = value, b being the Buffer that was handed out: the byte goes into
\* the block in which b lives.
Store(i, value) ==
  /\ alive /\ ops < MaxOps
  /\ exported.via # "none" /\ i < Len(exported.bytes)
  /\ buffer' = IF Attached(exported)
                 THEN [buffer EXCEPT !.bytes[exported.start + i + 1] = value]
                 ELSE buffer
  /\ exported' = [exported EXCEPT
                    !.bytes = IF Attached(exported) THEN @
                              ELSE [@ EXCEPT ![i + 1] = value],
                    !.held = [Content(exported) EXCEPT ![i + 1] = value]]
  /\ last' = Call("store", [str |-> FALSE, text |-> <<value>>], i, Undefined,
                  NoOptions, Done(This, "none"), This)
  /\ ops' = ops + 1
  /\ UNCHANGED <<alive, size, used, factor, fillVal, props, iter>>

(***************************************************************************)
(* The specification of handed out Buffers: a region, at most MaxOps calls *)
(* of which one hands out a Buffer, the others change the region or store  *)
(* into the Buffer.                                                        *)
(***************************************************************************)
Starts == {Undefined, Arg(-1), Arg(1), Arg(MAX_LENGTH)}
Ends == {Undefined, Arg(-1), Arg(0), Arg(2), Arg(MAX_LENGTH)}

InitExport ==
  Constructed({NoData, Str(TextAB)}, {Undefined, Arg(2)}, {NoFactor},
              {Undefined})

NextExport ==
  \/ \E start \in Starts, end \in Ends : CallToBuffer(start, end)
  \/ \E start \in {Undefined, Arg(1)}, end \in Ends : CallSubarray(start, end)
  \/ \E start \in Starts, end \in Ends : CallToString(start, end)
  \/ \E o \in {0, DefaultInitialSize + 1} :
       CallWrite(IF o = 0 THEN Str(TextA) ELSE Str(Empty), o, Undefined)
  \/ CallAppend(Str(TextAB), Undefined)
  \/ CallIndexedSet(0, 67)
  \/ CallFill(66, 0, 1)
  \/ CallReverse
  \/ \E i \in {0, 1} : Store(i, 68)

SpecExport == InitExport /\ [][NextExport]_vars

(***************************************************************************)
(* toJSON(): the loop over this.buffer.entries() stops at the end of the   *)
(* block or at the first index >= used.                                    *)
(***************************************************************************)
toJSON(r) ==
  [type |-> "Buffer",
   data |-> IF r.buffer.present /\ r.used > 0
              THEN SubSeq(r.buffer.bytes, 1, Min(r.used, Len(r.buffer.bytes)))
              ELSE <<>>]

(***************************************************************************)
(* entries(), keys(), values(): an iterator it = [kind, index], and its    *)
(* next().  The answer of next is [done, index, value]: entries yields     *)
(* [index, value], keys the index, values the value (Absent is undefined,  *)
(* and stands for the part that the kind does not yield).                  *)
(***************************************************************************)
Kinds == {"entries", "keys", "values"}

next(r, it) ==
  IF ~r.buffer.present \/ r.used = it.index
    THEN [done |-> TRUE, index |-> Absent, value |-> Absent, it |-> it]
    ELSE [done |-> FALSE,
          index |-> IF it.kind = "values" THEN Absent ELSE it.index,
          value |-> IF it.kind = "keys" THEN Absent
                    ELSE BufferGet(r.buffer.bytes, it.index),
          it |-> [it EXCEPT !.index = it.index + 1]]

\* for (const v of it): the values that next() returns until it reports done.
RECURSIVE forOf(_, _)
forOf(r, it) ==
  LET n == next(r, it) IN
  IF n.done THEN <<>>
  ELSE <<[index |-> n.index, value |-> n.value]>> \o forOf(r, n.it)

CallToJSON ==
  Answers("toJSON", NoData, 0, Undefined, toJSON(This))

\* for (const v of this.entries()), and so for keys() and values()
CallForOf(kind) ==
  Answers("forOf", [str |-> FALSE, text |-> <<>>, kind |-> kind], 0, Undefined,
          forOf(This, [kind |-> kind, index |-> 0]))

\* it = this.entries(), this.keys() or this.values()
CallIterator(kind) ==
  /\ alive
  /\ iter' = [kind |-> kind, index |-> 0]
  /\ last' = Call(kind, NoData, 0, Undefined, NoOptions, Done(This, "none"),
                  This)
  /\ UNCHANGED <<alive, buffer, size, used, factor, fillVal, props, ops,
                 exported>>

\* it.next(); last.offset is the index of the iterator before the call.
CallNext ==
  /\ alive /\ iter.kind # "none" /\ iter.index < MaxIndex
  /\ LET n == next(This, iter) IN
       /\ iter' = n.it
       /\ last' = Call("next", [str |-> FALSE, text |-> <<>>,
                                kind |-> iter.kind],
                       iter.index, Undefined, NoOptions,
                       [Done(This, "none") EXCEPT
                          !.count = [done |-> n.done, index |-> n.index,
                                     value |-> n.value]],
                       This)
  /\ UNCHANGED <<alive, buffer, size, used, factor, fillVal, props, ops,
                 exported>>

(***************************************************************************)
(* The iteration specification: a region, at most MaxOps calls that change *)
(* it, and an iterator advanced between them.                              *)
(***************************************************************************)
InitIter ==
  Constructed({NoData, Str(TextAB), Str(TextABC)}, {Undefined, Arg(0)},
              {NoFactor}, {Undefined})

NextIter ==
  \/ \E kind \in Kinds : CallIterator(kind)
  \/ CallNext
  \/ \E kind \in Kinds : CallForOf(kind)
  \/ CallToJSON
  \/ \E o \in {0, DefaultInitialSize + 1} :
       CallWrite(IF o = 0 THEN Str(TextA) ELSE Str(Empty), o, Undefined)
  \/ CallAppend(Str(TextAB), Undefined)

SpecIter == InitIter /\ [][NextIter]_vars

(***************************************************************************)
(* In place: sort, copyWithin, swap16, swap32, swap64 (reverse, fill and   *)
(* set are above).  this.buffer.subarray(0, this.length) is the view of    *)
(* the first used bytes that the block holds.                              *)
(***************************************************************************)
\* The block after an operation has turned its first Len(view) bytes into view.
WithView(r, view) ==
  [r EXCEPT !.buffer.bytes =
     [i \in 1..Len(r.buffer.bytes) |->
        IF i <= Len(view) THEN view[i] ELSE r.buffer.bytes[i]]]

UsedView(r) == SubSeq(r.buffer.bytes, 1, Min(r.used, Len(r.buffer.bytes)))

\* sort() without compareFn: ascending by value
sort(r) ==
  IF r.buffer.present /\ r.used > 0
    THEN Done(WithView(r, SortSeq(UsedView(r), LAMBDA a, b : a < b)), "none")
    ELSE Done(r, "none")

\* TypedArray.prototype.copyWithin on the view: offsets below 0 count from
\* the end of the view, and the bytes move as by memmove.
copyWithin(r, target, start, end) ==
  IF ~r.buffer.present \/ r.used = 0 THEN Done(r, "none")
  ELSE LET view == UsedView(r)
           n == Len(view)
           to == Relative(target, n)
           from == Relative(start, n)
           final == Relative(IF end.def THEN end.val ELSE r.used, n)
           count == Min(final - from, n - to)
       IN Done(WithView(r, [i \in 1..n |->
                              IF i > to /\ i <= to + count
                                THEN view[from + i - to]
                                ELSE view[i]]),
               "none")

\* swap(buf, i, j) of utils.ts on a Buffer: a read outside of the block gives
\* undefined, which is stored as 0, and a store outside of it is dropped.
swap(bytes, i, j) ==
  LET t == BufferGet(bytes, i)
      u == BufferGet(bytes, j)
      Put(b, k, v) ==
        IF k < Len(b) THEN [b EXCEPT ![k + 1] = IF v = Absent THEN 0 ELSE v]
        ELSE b
  IN Put(Put(bytes, i, u), j, t)

\* the swaps of one turn of the loop: (i, i + width - 1), (i + 1, i + width - 2)..
RECURSIVE swapGroup(_, _, _, _)
swapGroup(bytes, i, width, m) ==
  IF 2 * m >= width THEN bytes
  ELSE swapGroup(swap(bytes, i + m, i + width - 1 - m), i, width, m + 1)

\* for (let i = 0; i < this.length; i += width)
RECURSIVE swapLoop(_, _, _, _)
swapLoop(bytes, i, length, width) ==
  IF i >= length THEN bytes
  ELSE swapLoop(swapGroup(bytes, i, width, 0), i + width, length, width)

\* swap16, swap32 and swap64 for width 2, 4 and 8.  A region of the model
\* has fewer than 128 used bytes, so the loop is the branch taken.
swapWidth(r, width) ==
  IF r.used % width # 0 THEN Done(r, "RangeError")
  ELSE IF r.used = 0 \/ ~r.buffer.present THEN Done(r, "none")
  ELSE Done([r EXCEPT !.buffer.bytes = swapLoop(@, 0, r.used, width)], "none")

swap16(r) == swapWidth(r, 2)
swap32(r) == swapWidth(r, 4)
swap64(r) == swapWidth(r, 8)

CallSort ==
  /\ alive /\ ops < MaxOps
  /\ Method("sort", NoData, 0, Undefined, sort(This))

CallCopyWithin(target, start, end) ==
  /\ alive /\ ops < MaxOps
  /\ Method("copyWithin", [str |-> FALSE, text |-> <<>>, target |-> target],
            start, end, copyWithin(This, target, start, end))

CallSwap16 ==
  /\ alive /\ ops < MaxOps
  /\ Method("swap16", NoData, 0, Undefined, swap16(This))

CallSwap32 ==
  /\ alive /\ ops < MaxOps
  /\ Method("swap32", NoData, 0, Undefined, swap32(This))

CallSwap64 ==
  /\ alive /\ ops < MaxOps
  /\ Method("swap64", NoData, 0, Undefined, swap64(This))

(***************************************************************************)
(* The in-place specification: a region, and at most MaxOps calls that     *)
(* write into it or work on it in place.                                   *)
(***************************************************************************)
ABCDEFGH == <<65, 66, 67, 68, 69, 70, 71, 72>>
BADC == <<66, 65, 68, 67>>

InitInPlace ==
  Constructed({NoData, Str(TextAB), Str(TextABC), Str(BADC), Str(ABCDEFGH)},
              {Undefined, Arg(0), Arg(3)}, {NoFactor}, {Undefined, Arg(32)})

NextInPlace ==
  \/ \E o \in {0, DefaultInitialSize + 2} :
       CallWrite(IF o = 0 THEN Str(TextAB) ELSE Str(Empty), o, Undefined)
  \/ \E array \in {<<66>>, <<67, 66>>},
        o \in {-1, 0, 1, 2, DefaultInitialSize} : CallSet(array, o)
  \/ \E o \in {-1, 0, 1, 3}, e \in {0, 2, 3, MAX_LENGTH} : CallFill(70, o, e)
  \/ \E t \in {0, 1}, b \in {-1, 0, 1}, e \in {Undefined, Arg(1)} :
       CallCopyWithin(t, b, e)
  \/ CallReverse
  \/ CallSort
  \/ CallSwap16
  \/ CallSwap32
  \/ CallSwap64

SpecInPlace == InitInPlace /\ [][NextInPlace]_vars

(***************************************************************************)
(* Properties.                                                             *)
(***************************************************************************)
\* A public call of the kinds that write a string into the region.
Wrote == alive /\ last.op \in {"append", "write"} /\ last.data.str
Succeeded == alive /\ last.err = "none"

\* The integer ceiling of sz * (1 + f), by its defining property: the least
\* n with n >= sz * (1 + f).
CeilGrowth(sz, f) ==
  CHOOSE n \in 0..(sz * (f.den + f.num) + 1) :
    /\ n * f.den >= sz * (f.den + f.num)
    /\ (n - 1) * f.den < sz * (f.den + f.num)

\* C1: after every successful public call (construction, append, write,
\* copy into the region, set, fill, indexed write), 0 <= used <= capacity;
\* writes of the empty string or of length 0 at any offset >= 0 included.
C1_UsedWithinCapacity == Succeeded => (0 <= used /\ used <= size)

\* C2: in a run of append(data) calls on a region of any initial capacity
\* and growth factor, each append adds the returned count to used and the
\* whole encoded data to the logical content, reallocation or not; so used
\* is the sum of the counts and the content the concatenation of the data.
C2_AppendLosesNothing ==
  (Succeeded /\ last.op = "append") =>
    /\ used = last.pre.used + last.ret
    /\ Logical(This) = Logical(last.pre) \o Encode(last.data.text)

C4_WriteSetsUsed ==
  (Succeeded /\ last.op = "write") =>
    /\ last.offset >= 0
    /\ used = last.offset + last.ret
    /\ \A i \in 1..Min(last.offset,
                       Min(last.pre.used, Len(last.pre.buffer.bytes))) :
         buffer.bytes[i] = last.pre.buffer.bytes[i]
    /\ last.ret > 0 =>
         SubSeq(buffer.bytes, last.offset + 1, last.offset + last.ret)
           = SubSeq(Encode(last.data.text), 1, last.ret)

\* C4 witness: a write in the middle of the logical region that ends before
\* the previous used and so truncates it.
C4_Witness ==
  /\ Succeeded /\ last.op = "write"
  /\ last.offset > 0 /\ last.ret > 0
  /\ last.offset + last.ret < last.pre.used
  /\ last.pre.used <= last.pre.size

C6_OverflowFails ==
  (Wrote /\ last.offset >= 0
   /\ last.offset + lengthToWrite(last.data.text, last.length) > MAX_LENGTH) =>
    /\ last.err = "Overflow"
    /\ This = last.pre

\* C7: append(data) and write(data, offset) without a length write the full
\* encoded byte sequence of data: the returned count and the advance of used
\* are the encoded byte length of data.
C7_WritesFullEncoding ==
  (Wrote /\ Succeeded /\ ~last.length.def) =>
    /\ last.ret = Len(Encode(last.data.text))
    /\ used = last.offset + Len(Encode(last.data.text))

\* C8: append(data, length) writes exactly clamp(length, 0, len(data)) bytes
\* from the start of data; a negative length writes nothing and leaves used.
C8_LengthClamped ==
  (Wrote /\ Succeeded /\ last.op = "append" /\ last.length.def
   /\ last.pre.used <= last.pre.size) =>
    LET n == Max(0, Min(last.length.val, Len(Encode(last.data.text)))) IN
    /\ last.ret = n
    /\ used = last.pre.used + n
    /\ Logical(This)
         = Logical(last.pre) \o SubSeq(Encode(last.data.text), 1, n)

\* C9: construction resolves the capacity to the requested size (16 when
\* none is given), raised to exactly len(data) when the initial data is
\* longer; storage is allocated iff that capacity is > 0; with initial data
\* used = len(data) and the logical content is the data, otherwise used = 0.
C9_Construction ==
  (last.op = "new" /\ alive) =>
    LET requested == IF last.opts.size.def THEN last.opts.size.val ELSE 16
        bytes == IF last.data.str THEN Encode(last.data.text) ELSE <<>>
    IN /\ size = Max(requested, Len(bytes))
       /\ buffer.present <=> size > 0
       /\ Len(buffer.bytes) = size
       /\ used = Len(bytes)
       /\ Logical(This) = bytes

\* C10: construction with a growth factor <= 0 (0 and negative values) or
\* NaN fails with a configuration error and produces no region.
C10_BadFactorFails ==
  (last.op = "new"
   /\ (last.opts.factor.kind = "NaN"
       \/ (last.opts.factor.kind = "num" /\ last.opts.factor.num <= 0))) =>
    /\ ~alive
    /\ last.err \in {"InvalidFactor", "InvalidSize"}

\* C11: in every reachable state 0 <= capacity <= MAX_LENGTH, and the
\* storage block has exactly capacity bytes: construction with a resolved
\* capacity (the requested size, 16 when none is given, raised to the length
\* of the initial data) below 0 or above MAX_LENGTH fails and produces no
\* region, and no sequence of appends and writes produces a capacity above
\* MAX_LENGTH.
C11_CapacityBounded ==
  /\ alive => /\ 0 <= size /\ size <= MAX_LENGTH
              /\ Len(buffer.bytes) = size
  /\ last.op = "new" =>
       LET requested == IF last.opts.size.def THEN last.opts.size.val ELSE 16
           resolved == IF last.data.str
                         THEN Max(requested, Len(Encode(last.data.text)))
                         ELSE requested
       IN (resolved < 0 \/ resolved > MAX_LENGTH) =>
            (~alive /\ last.err = "InvalidSize")

\* C11 witness: a growth that the factor would take beyond MAX_LENGTH ends
\* at exactly MAX_LENGTH.
C11_Witness ==
  /\ Succeeded /\ last.op \in {"append", "write"}
  /\ last.pre.size < MAX_LENGTH /\ size = MAX_LENGTH
  /\ last.expect < MAX_LENGTH
  /\ CeilGrowth(last.pre.size, last.pre.factor) > MAX_LENGTH

\* C12: an append or write call rejected for an invalid argument throws to
\* the caller and changes nothing: write with a negative offset throws a
\* RangeError, append or write with data that is not text (a number, null,
\* no argument) throws a TypeError, and used, capacity, the storage block and
\* every byte of it are as before the call.
C12_RejectedChangesNothing ==
  (alive /\ last.op \in {"append", "write"}
   /\ (last.offset < 0 \/ ~last.data.str)) =>
    /\ (last.offset < 0 /\ last.data.str) => last.err = "RangeError"
    /\ (last.offset >= 0 /\ ~last.data.str) => last.err = "TypeError"
    /\ last.err \in {"RangeError", "TypeError"}
    /\ This = last.pre

\* C12 witness: a write of text at a negative offset, rejected on a region
\* that holds data.
C12_Witness ==
  /\ alive /\ last.pre.used > 0 /\ used = last.pre.used
  /\ last.op = "write" /\ last.offset < 0 /\ last.data.text # <<>>
  /\ last.err = "RangeError"

\* C13: read(offset) and the indexed get region[offset] return the absent
\* value whenever offset < 0 or offset >= used, and storage[offset]
\* otherwise; in no reachable state do they return a byte stored at an
\* offset in [used, capacity), whatever was written there earlier.
C13_ReadWithinUsed ==
  (alive /\ last.op \in {"read", "indexedGet"}) =>
    IF last.offset < 0 \/ last.offset >= last.pre.used
      THEN last.ret = Absent
      ELSE last.ret = BufferGet(last.pre.buffer.bytes, last.offset)

\* C14: at(index) counts a negative index from the end of the used region:
\* whenever used <= capacity, it returns storage[index] for
\* 0 <= index < used, storage[used + index] for -used <= index < 0, and
\* absent for index >= used and for index < -used.
C14_AtCountsFromUsed ==
  (alive /\ last.op = "at" /\ last.pre.used <= last.pre.size) =>
    LET i == last.offset
        u == last.pre.used
    IN IF 0 <= i /\ i < u THEN last.ret = last.pre.buffer.bytes[i + 1]
       ELSE IF -u <= i /\ i < 0 THEN last.ret = last.pre.buffer.bytes[u + i + 1]
       ELSE last.ret = Absent

\* C14 witness: a negative index on a region whose capacity is larger than
\* used, and whose byte at the end of the used region differs from the byte
\* at the end of the block.
C14_Witness ==
  /\ alive /\ last.op = "at" /\ last.offset = -1
  /\ 0 < used /\ used < size
  /\ last.ret = buffer.bytes[used]
  /\ buffer.bytes[used] # buffer.bytes[size]

\* C15: an indexed write region[i] = byte with i negative or i >= used is a
\* silent no-op: no error, no byte of storage changed, used and capacity
\* unchanged, no growth, and nothing defined on the object; with
\* 0 <= i < used it overwrites exactly storage[i] and changes nothing else.
C15_IndexedWriteFrame ==
  (alive /\ last.op = "indexedSet") =>
    /\ last.err = "none"
    /\ used = last.pre.used /\ size = last.pre.size
    /\ buffer.id = last.pre.buffer.id
    /\ Len(buffer.bytes) = Len(last.pre.buffer.bytes)
    /\ \A k \in 1..Len(buffer.bytes) :
         buffer.bytes[k] =
           IF 0 <= last.offset /\ last.offset < last.pre.used
              /\ k = last.offset + 1
             THEN last.data.text[1]
             ELSE last.pre.buffer.bytes[k]
    /\ props = {}

\* The bytes a call searched for: the encoded string, the byte sequence, the
\* single byte, or the used slice of the other region.
NeedleOf(value) ==
  IF value.kind = "region" THEN Logical(value.region)
  ELSE IF value.kind = "string" THEN Encode(value.text)
  ELSE value.text

\* The needle lies at offset i of the logical region of r.
FoundAt(r, needle, i) ==
  /\ 0 <= i /\ i + Len(needle) <= r.used
  /\ i + Len(needle) <= Len(r.buffer.bytes)
  /\ \A k \in 1..Len(needle) : r.buffer.bytes[i + k] = needle[k]

\* C16: for every negative byteOffset on a non-empty region,
\* indexOf(needle, byteOffset) equals
\* indexOf(needle, max(0, used + byteOffset)); so for byteOffset < -used the
\* search starts at 0 and gives the result of indexOf(needle, 0).
C16_NegativeOffsetResolved ==
  (alive /\ last.op = "indexOf" /\ last.offset < 0 /\ last.pre.used > 0) =>
    last.ret = indexOf(last.pre, last.data,
                       Arg(Max(0, last.pre.used + last.offset)))

\* C17: indexOf searches the logical region only: for a non-empty needle
\* and byteOffset >= 0 it returns the smallest i >= byteOffset with
\* i + len(needle) <= used and storage[i, i + len(needle)) = needle, or -1
\* if there is none, so never a match that uses a byte of [used, capacity);
\* and includes(...) is true exactly when indexOf(...) is not -1.
C17_IndexOfLogicalOnly ==
  /\ (alive /\ last.op = "indexOf" /\ last.offset >= 0
      /\ NeedleOf(last.data) # <<>>) =>
       LET needle == NeedleOf(last.data)
           Hits == {i \in last.offset..last.pre.used :
                      FoundAt(last.pre, needle, i)}
       IN IF Hits = {} THEN last.ret = -1
          ELSE last.ret \in Hits /\ \A i \in Hits : last.ret <= i
  /\ (alive /\ last.op = "includes") =>
       (last.ret = 1 <=> indexOf(last.pre, last.data, last.length) # -1)

\* C17 witness: a search for the fill byte, which the used bytes do not
\* contain and the bytes beyond used do, answers -1.
C17_Witness ==
  /\ alive /\ last.op = "indexOf" /\ last.offset = 0
  /\ last.data.kind = "number" /\ last.data.text = <<fillVal>>
  /\ 0 < used /\ used < size
  /\ buffer.bytes[used + 1] = fillVal
  /\ last.ret = -1

\* C18: indexOf with an empty needle never returns -1: on an empty region
\* it returns 0, on a non-empty region the clamped offset itself
\* (byteOffset when 0 <= byteOffset <= used, used when byteOffset > used,
\* max(0, used + byteOffset) when byteOffset < 0); and a non-empty needle on
\* an empty region returns -1.
C18_EmptyNeedle ==
  (alive /\ last.op = "indexOf") =>
    LET b == last.offset
        u == last.pre.used
    IN IF NeedleOf(last.data) = <<>> /\ last.data.kind # "number"
         THEN last.ret = IF u = 0 THEN 0
                         ELSE IF b < 0 THEN Max(0, u + b)
                         ELSE IF b > u THEN u
                         ELSE b
         ELSE u = 0 => last.ret = -1

\* C19: lastIndexOf(needle, byteOffset) on a non-empty region returns the
\* greatest i <= s with i + len(needle) <= used and
\* storage[i, i + len(needle)) = needle, or -1 if there is none, where
\* s = byteOffset for 0 <= byteOffset < used, s = used for byteOffset >= used
\* or omitted, and s = used + byteOffset for -used <= byteOffset < 0.
C19_LastIndexOf ==
  (alive /\ last.op = "lastIndexOf" /\ last.pre.used > 0
   /\ last.offset >= -last.pre.used) =>
    LET b == last.offset
        u == last.pre.used
        s == IF b < 0 THEN u + b ELSE IF b >= u THEN u ELSE b
        needle == NeedleOf(last.data)
        Hits == {i \in 0..s : FoundAt(last.pre, needle, i)}
    IN IF Hits = {} THEN last.ret = -1
       ELSE last.ret \in Hits /\ \A i \in Hits : last.ret >= i

\* C19 witness: on a region that holds 'ABCABCABC' in a larger block,
\* lastIndexOf('ABC', 32) is 6.
C19_Witness ==
  /\ alive /\ last.op = "lastIndexOf"
  /\ last.data = StrValue(TextABC) /\ last.offset = 32
  /\ Logical(This) = ABCABCABC /\ used < size
  /\ last.ret = 6

\* C20: for all regions a and b, with the default ranges,
\* a.compare(b) = -1 iff b.compare(a) = 1, a.compare(b) = 0 iff
\* b.compare(a) = 0, and a.compare(a) = 0.
C20_CompareAntisymmetric ==
  (alive /\ last.op = "compare") =>
    LET a == last.pre
        b == last.data.region
        ab == last.ret
        ba == compare(b, a, Undefined, Undefined, Undefined, Undefined)
    IN /\ ab = -1 <=> ba = 1
       /\ ab = 0 <=> ba = 0
       /\ a = b => ab = 0

\* The order of two byte sequences: the first differing byte decides, and a
\* strict prefix comes first.
Lexicographic(x, y) ==
  LET n == Min(Len(x), Len(y))
      Differ(k) == x[k] # y[k]
  IN IF \E k \in 1..n : Differ(k)
       THEN LET k == CHOOSE k \in 1..n :
                       Differ(k) /\ \A m \in 1..(k - 1) : ~Differ(m)
            IN IF x[k] < y[k] THEN -1 ELSE 1
     ELSE IF Len(x) < Len(y) THEN -1
     ELSE IF Len(x) > Len(y) THEN 1
     ELSE 0

\* C21: with the default ranges a.compare(b) is the lexicographic order of
\* the used bytes of a and of b as unsigned bytes (the first differing byte
\* decides, a strict prefix comes first), and a.equals(b) is true exactly
\* when a and b have the same used and the same used bytes; neither answer
\* depends on a capacity or on a byte at an offset >= used.
C21_CompareLexicographic ==
  LET a == last.pre
      b == last.data.region
  IN /\ (alive /\ last.op = "compare") =>
          last.ret = Lexicographic(Logical(a), Logical(b))
     /\ (alive /\ last.op = "equals") =>
          (last.ret = 1 <=> (a.used = b.used /\ Logical(a) = Logical(b)))

\* C22: the Buffer r that toBuffer returned is a copy and never a view: no
\* later call on the region (write, append, growth, indexed write, fill,
\* reverse) changes the bytes of r, and no store into r changes the storage,
\* used or capacity of the region.
C22_ToBufferIsCopy ==
  (alive /\ exported.via = "toBuffer") =>
    /\ Content(exported) = exported.held
    /\ last.op = "store" => This = last.pre

\* toBuffer() returned 'AB', then the region grew and changed, or the first
\* byte of the region was replaced; and a byte stored into the copy.
C22_Witness ==
  /\ alive /\ exported.via = "toBuffer"
  /\ \/ /\ last.op \in {"append", "write", "indexedSet", "fill", "reverse"}
        /\ exported.held = TextAB
        /\ Logical(This) # TextAB /\ Logical(last.pre) = TextAB
     \/ /\ last.op = "store" /\ last.pre.used = 2
        /\ exported.held # Logical(This)

\* The range [s, e) that start and end name in a region with `n` used bytes:
\* s is 0 for start < 0 or no start, n for start > n, otherwise start; e is n
\* for end > n or no end, otherwise end.
RangeStart(start, n) ==
  IF ~start.def \/ start.val < 0 THEN 0
  ELSE IF start.val > n THEN n ELSE start.val
RangeEnd(end, n) == IF ~end.def \/ end.val > n THEN n ELSE end.val

\* storage[s, e), empty whenever e <= s: the bytes of it that exist
Slice(r, s, e) ==
  IF e <= s THEN <<>>
  ELSE SubSeq(r.buffer.bytes, s + 1, Min(e, Len(r.buffer.bytes)))

\* C23: for all integers start and end, toBuffer(start, end) and
\* toString(charset, start, end) return without error the bytes
\* storage[s, e) (toString: the string that they encode), where s is 0 for
\* start < 0, used for start > used and start otherwise, and e is used for
\* end > used or no end and end otherwise; whenever e <= s, a negative end
\* and an end below start included, the result is empty.
C23_RangeClamped ==
  (alive /\ last.op \in {"toBuffer", "toString"}) =>
    LET r == last.pre
        bytes == Slice(r, RangeStart(last.offset, r.used),
                       RangeEnd(last.length, r.used))
    IN /\ last.err = "none"
       /\ last.op = "toBuffer" => last.ret = bytes
       /\ last.op = "toString" => last.ret = Decode(bytes)

\* C24: in every reachable state toJSON() returns type "Buffer" and, as
\* data, exactly the used bytes storage[0..used-1] in order (the empty list
\* when used = 0 or there is no storage); and a fresh values(), keys() or
\* entries() iterator run to completion on the unmodified region yields
\* exactly the indices 0..used-1 in increasing order, with their bytes, and
\* then reports done.
C24_JsonAndIterators ==
  LET r == last.pre IN
  /\ (alive /\ last.op = "toJSON") =>
       /\ last.ret.type = "Buffer"
       /\ last.ret.data = Logical(r)
  /\ (alive /\ last.op = "forOf") =>
       /\ Len(last.ret) = r.used
       /\ \A k \in 1..Len(last.ret) :
            /\ last.data.kind # "values" => last.ret[k].index = k - 1
            /\ last.data.kind # "keys" =>
                 last.ret[k].value = BufferGet(r.buffer.bytes, k - 1)

\* The region keeps used, capacity and its block, and every byte outside of
\* the offsets [from, to).
SameBut(r, q, from, to) ==
  /\ q.used = r.used /\ q.size = r.size
  /\ q.buffer.present = r.buffer.present /\ q.buffer.id = r.buffer.id
  /\ Len(q.buffer.bytes) = Len(r.buffer.bytes)
  /\ \A k \in 0..(Len(r.buffer.bytes) - 1) :
       (k < from \/ k >= to) => q.buffer.bytes[k + 1] = r.buffer.bytes[k + 1]

\* C25: set(array, offset) with a non-empty array succeeds only when
\* 0 <= offset <= used - len(array): then exactly the bytes
\* [offset, offset + len(array)) are overwritten with the array, and used and
\* capacity are unchanged.  Otherwise (any non-empty array on an empty region
\* included) it fails with a RangeError and nothing changes.  set never
\* grows the region.
C25_SetWithinUsed ==
  (alive /\ last.op = "set" /\ last.data.text # <<>>) =>
    LET r == last.pre
        array == last.data.text
        o == last.offset
        InRange == 0 <= o /\ o <= r.used - Len(array)
    IN /\ last.err = "none" =>
            /\ InRange
            /\ SameBut(r, This, o, o + Len(array))
            /\ \A k \in 1..Len(array) :
                 BufferGet(buffer.bytes, o + k - 1) = array[k]
       /\ ~InRange => last.err = "RangeError"
       /\ last.err # "none" => This = r

\* C26: compare clamps an end that is too long: for every sourceEnd > used,
\* compare(other, 0, other.length, 0, sourceEnd) gives what sourceEnd = used
\* gives, and for every targetEnd > other.length, compare(other, 0,
\* targetEnd) gives what targetEnd = other.length gives; two regions with the
\* same logical content compare as 0 whatever over-long end is passed.
C26_CompareClampsEnds ==
  (alive /\ last.op = "compareEnds") =>
    LET a == last.pre
        b == last.data.region
    IN /\ last.ret = compare(a, b, Arg(0), Arg(b.used), Arg(0), Arg(a.used))
       /\ (a.used = b.used /\ Logical(a) = Logical(b)) => last.ret = 0

\* C27: for all integers start and end (a negative end and an end below start
\* included) and every region with used < capacity, the view that
\* subarray(start, end) returns covers only offsets in [0, used): it never
\* exposes a byte at an offset in [used, capacity).
C27_SubarrayWithinUsed ==
  (alive /\ last.op = "subarray" /\ last.pre.used < last.pre.size) =>
    \/ Len(exported.bytes) = 0
    \/ /\ exported.block = last.pre.buffer.id
       /\ exported.start >= 0
       /\ exported.start + Len(exported.bytes) <= last.pre.used

\* C28: for an iterator from values(), keys() or entries(), under any
\* interleaving of next() with calls that change the region (appends, and
\* writes that move used below the position of the iterator), every next()
\* yields an index below the current used or reports done, and once the
\* position is >= used the next call reports done, so that a for...of over
\* the region always ends.
C28_IteratorWithinUsed ==
  (alive /\ last.op = "next") =>
    LET position == last.offset
        r == last.pre
    IN /\ last.ret.done \/ position < r.used
       /\ position >= r.used => last.ret.done

\* C29: src.copy(dst, targetStart, sourceStart, sourceEnd) into a region dst
\* returns the number n of bytes of src[sourceStart, min(sourceEnd,
\* src.used)), makes dst[targetStart, targetStart + n) equal to them, and
\* changes nothing else in dst: whenever targetStart + n <= dst.length before
\* the call (n = 0 for an empty source included), dst.length and every byte
\* of dst outside of that range are as before.  (src is another object, and
\* the model gives copy no access to it but to read it.)
C29_CopyFrame ==
  (alive /\ last.op = "copy" /\ last.err = "none") =>
    LET dst == last.pre
        src == constructor(Str(last.data.text), NoOptions).r
        s == last.data.sourceStart
        e == IF last.length.def THEN Min(last.length.val, src.used)
             ELSE src.used
        bytes == Slice(src, s, e)
        n == Len(bytes)
        t == last.offset
    IN /\ last.ret = n
       /\ \A k \in 1..n : BufferGet(buffer.bytes, t + k - 1) = bytes[k]
       /\ t + n <= dst.used =>
            /\ used = dst.used
            /\ \A k \in 0..(dst.used - 1) :
                 (k < t \/ k >= t + n) =>
                   BufferGet(buffer.bytes, k) = BufferGet(dst.buffer.bytes, k)

\* C30: the calls in place (reverse, sort, copyWithin, fill, set, swap16,
\* swap32, swap64), whether they succeed or fail (swapN with a RangeError
\* when used is no multiple of 2, 4, 8; fill and set on arguments out of
\* range), never change used or capacity, never replace the storage block
\* and never modify a byte at an offset >= used; reverse, sort and swapN
\* leave the multiset of the logical bytes unchanged.
C30_InPlaceFrame ==
  (alive /\ last.op \in {"reverse", "sort", "copyWithin", "fill", "set",
                         "swap16", "swap32", "swap64"}) =>
    LET r == last.pre IN
    /\ SameBut(r, This, 0, r.used)
    /\ last.err \in {"none", "RangeError"}
    /\ last.op \in {"reverse", "sort", "swap16", "swap32", "swap64"} =>
         SortSeq(Logical(This), LAMBDA a, b : a < b)
           = SortSeq(Logical(r), LAMBDA a, b : a < b)

====
